---- MODULE Spec2Model ----
(***************************************************************************)
(* Model of cmd/convert/main.go: the converter that parses annotated .sql  *)
(* files (parseAllQueries, parseQuery) and writes FleetDM YAML documents   *)
(* (writeFleetYAML, writeQueryYAML, escapeYAML).                           *)
(*                                                                         *)
(* Strings are sequences of one-character strings, so that prefix tests,   *)
(* trimming, regular-expression matching and escaping are computed the way *)
(* the Go code computes them.                                              *)
(*                                                                         *)
(* Three specifications share the definitions:                             *)
(*   SpecParse   parseQuery's scanner loop over one file, line by line     *)
(*   SpecEscape  escapeYAML over bounded strings                           *)
(*   Spec        a whole run of main (and a second run on the same tree)   *)
(***************************************************************************)
EXTENDS Integers, Sequences, FiniteSets, TLC

VARIABLES
    \* ---- parseQuery on one file (SpecParse)
    fcat,       \* the category argument
    fpath,      \* the path relative to the category directory, as its parts
    scanned,    \* the lines scanner.Scan() has returned so far
    st,         \* parseQuery's locals: q, sqlLines, firstComment, inHeader
    ppc,        \* "scan" while in the loop, "done" after the return
    \* ---- escapeYAML (SpecEscape)
    s,          \* the argument
    out,        \* escapeYAML(s)
    \* ---- a run of main (Spec)
    tree,       \* the upstream directory: per category, exists + entries
    pc,         \* where main is
    ci,         \* index into categories of the category being walked
    ei,         \* index of the next entry WalkDir hands to the callback
    queries,    \* the queries slice
    visited,    \* categories the range over groups has already yielded
    disk,       \* the output directory: file name -> content (lines)
    created,    \* file names os.Create was called for, in call order
    wfailed,    \* TRUE once a WriteString of this run returned an error
    faults,     \* os.Create calls so far that failed or gave a failing handle
    exitCode,   \* -1 while running, then the process exit code
    run,        \* 1 for the first run, 2 for the run repeated on the tree
    firstOut    \* the output directory as the first run left it

parseVars == <<fcat, fpath, scanned, st, ppc>>
escVars   == <<s, out>>
runVars   == <<tree, pc, ci, ei, queries, visited, disk, created, wfailed,
               faults, exitCode, run, firstOut>>
vars      == <<parseVars, escVars, runVars>>

----------------------------------------------------------------------------
\* Bounds of the model.

\* lines of one file in SpecParse
MaxLines == 3
\* length of the argument of escapeYAML in SpecEscape
MaxStrLen == 3
\* entries (files and directories) of one upstream tree in Spec and SpecWalk
MaxEntries == 3
\* os.Create calls that go wrong in the two runs of Spec
MaxFaults == 1

----------------------------------------------------------------------------
\* The strings package, on sequences of characters.

Drop(str, n) == SubSeq(str, n + 1, Len(str))

IsSpace(c) == c \in {" ", "\t", "\n"}

IsDigit(c) == c \in {"0", "1", "2", "3", "4", "5", "6", "7", "8", "9"}

HasPrefix(str, p) == Len(str) >= Len(p) /\ SubSeq(str, 1, Len(p)) = p

HasSuffix(str, p) ==
    Len(str) >= Len(p) /\ SubSeq(str, Len(str) - Len(p) + 1, Len(str)) = p

TrimPrefix(str, p) == IF HasPrefix(str, p) THEN Drop(str, Len(p)) ELSE str

TrimSuffix(str, p) ==
    IF HasSuffix(str, p) THEN SubSeq(str, 1, Len(str) - Len(p)) ELSE str

RECURSIVE TrimLeft(_)
TrimLeft(str) ==
    IF str # <<>> /\ IsSpace(Head(str)) THEN TrimLeft(Tail(str)) ELSE str

RECURSIVE TrimRight(_)
TrimRight(str) ==
    IF str # <<>> /\ IsSpace(str[Len(str)])
    THEN TrimRight(SubSeq(str, 1, Len(str) - 1))
    ELSE str

TrimSpace(str) == TrimRight(TrimLeft(str))

ContainsAny(str, chars) == \E i \in 1..Len(str) : str[i] \in chars

\* strings.ReplaceAll for a non-empty old: left to right, non-overlapping.
RECURSIVE ReplaceAll(_, _, _)
ReplaceAll(str, old, new) ==
    IF str = <<>> THEN <<>>
    ELSE IF HasPrefix(str, old)
         THEN new \o ReplaceAll(Drop(str, Len(old)), old, new)
         ELSE <<Head(str)>> \o ReplaceAll(Tail(str), old, new)

\* strings.Join(lines, "\n")
RECURSIVE Join(_)
Join(ls) ==
    IF ls = <<>> THEN <<>>
    ELSE IF Len(ls) = 1 THEN ls[1]
    ELSE ls[1] \o <<"\n">> \o Join(Tail(ls))

\* strings.Split(str, "\n"): always at least one element.
RECURSIVE SplitFrom(_, _)
SplitFrom(str, cur) ==
    IF str = <<>> THEN <<cur>>
    ELSE IF Head(str) = "\n" THEN <<cur>> \o SplitFrom(Tail(str), <<>>)
    ELSE SplitFrom(Tail(str), Append(cur, Head(str)))

Split(str) == SplitFrom(str, <<>>)

\* strings.Fields: the maximal runs of non-space characters.
RECURSIVE FieldsFrom(_, _)
FieldsFrom(str, cur) ==
    IF str = <<>> THEN (IF cur = <<>> THEN <<>> ELSE <<cur>>)
    ELSE IF IsSpace(Head(str))
         THEN (IF cur = <<>> THEN <<>> ELSE <<cur>>) \o FieldsFrom(Tail(str), <<>>)
         ELSE FieldsFrom(Tail(str), Append(cur, Head(str)))

Fields(str) == FieldsFrom(str, <<>>)

LowerLetters == <<"a", "b", "c", "d", "e", "f", "g", "h", "i", "j", "k", "l", "m",
                  "n", "o", "p", "q", "r", "s", "t", "u", "v", "w", "x", "y", "z">>

UpperLetters == <<"A", "B", "C", "D", "E", "F", "G", "H", "I", "J", "K", "L", "M",
                  "N", "O", "P", "Q", "R", "S", "T", "U", "V", "W", "X", "Y", "Z">>

IsLetter(c) == \E i \in 1..Len(LowerLetters) : c \in {LowerLetters[i], UpperLetters[i]}

ToLowerChar(c) ==
    IF \E i \in 1..Len(UpperLetters) : UpperLetters[i] = c
    THEN LowerLetters[CHOOSE i \in 1..Len(UpperLetters) : UpperLetters[i] = c]
    ELSE c

ToUpperChar(c) ==
    IF \E i \in 1..Len(LowerLetters) : LowerLetters[i] = c
    THEN UpperLetters[CHOOSE i \in 1..Len(LowerLetters) : LowerLetters[i] = c]
    ELSE c

ToLower(str) == [i \in 1..Len(str) |-> ToLowerChar(str[i])]

\* strings.Title: the first letter of every word is upper-cased; a word starts
\* at the start of the string or after a character that is no letter, digit
\* or underscore.
Title(str) ==
    [i \in 1..Len(str) |->
        IF i = 1 \/ ~(IsLetter(str[i-1]) \/ IsDigit(str[i-1]) \/ str[i-1] = "_")
        THEN ToUpperChar(str[i])
        ELSE str[i]]

\* fmt.Sscanf(digits, "%d", &n) on a string of decimal digits.
DigitValue(c) ==
    CASE c = "0" -> 0 [] c = "1" -> 1 [] c = "2" -> 2 [] c = "3" -> 3 [] c = "4" -> 4
      [] c = "5" -> 5 [] c = "6" -> 6 [] c = "7" -> 7 [] c = "8" -> 8 [] c = "9" -> 9

RECURSIVE ScanInt(_, _)
ScanInt(digits, acc) ==
    IF digits = <<>> THEN acc
    ELSE ScanInt(Tail(digits), 10 * acc + DigitValue(Head(digits)))

----------------------------------------------------------------------------
\* String literals of the program.

sComment == <<"-", "-">>
sTags == <<"t", "a", "g", "s", ":">>
sPlatform == <<"p", "l", "a", "t", "f", "o", "r", "m", ":">>
sInterval == <<"i", "n", "t", "e", "r", "v", "a", "l", ":">>
sReferences == <<"r", "e", "f", "e", "r", "e", "n", "c", "e", "s", ":">>
sFalsePositives == <<"f", "a", "l", "s", "e", " ", "p", "o", "s", "i", "t", "i", "v", "e", "s", ":">>
sSql == <<".", "s", "q", "l">>
sDarwin == <<"d", "a", "r", "w", "i", "n">>
sMacos == <<"m", "a", "c", "o", "s">>
sLinux == <<"l", "i", "n", "u", "x">>
sPosix == <<"p", "o", "s", "i", "x">>
sWindows == <<"w", "i", "n", "d", "o", "w", "s">>
sDarwinLinux == <<"d", "a", "r", "w", "i", "n", ",", "l", "i", "n", "u", "x">>
sDetection == <<"d", "e", "t", "e", "c", "t", "i", "o", "n">>
sPolicy == <<"p", "o", "l", "i", "c", "y">>
sIncidentResponse == <<"i", "n", "c", "i", "d", "e", "n", "t", "_", "r", "e", "s", "p", "o", "n", "s", "e">>

\* categories := []string{"detection", "policy", "incident_response"}
categories == <<sDetection, sPolicy, sIncidentResponse>>

Categories == {categories[i] : i \in 1..Len(categories)}

----------------------------------------------------------------------------
\* The regular expressions.  A match is [ok |-> TRUE, cap |-> the group].

NoMatch == [ok |-> FALSE, cap |-> <<>>]

\* ^--\s*<key>\s*(.+)$ : after the key, \s* is greedy but gives back one
\* character when nothing else is left for (.+).
MatchKeyAny(line, key) ==
    IF ~HasPrefix(line, sComment) THEN NoMatch
    ELSE LET a == TrimLeft(Drop(line, 2))
         IN  IF ~HasPrefix(a, key) THEN NoMatch
             ELSE LET r == Drop(a, Len(key))
                  IN  IF r = <<>> THEN NoMatch
                      ELSE IF TrimLeft(r) # <<>>
                           THEN [ok |-> TRUE, cap |-> TrimLeft(r)]
                           ELSE [ok |-> TRUE, cap |-> <<r[Len(r)]>>]

tagsRegex(line) == MatchKeyAny(line, sTags)

platformRegex(line) == MatchKeyAny(line, sPlatform)

\* ^--\s*interval:\s*(\d+)$
intervalRegex(line) ==
    IF ~HasPrefix(line, sComment) THEN NoMatch
    ELSE LET a == TrimLeft(Drop(line, 2))
         IN  IF ~HasPrefix(a, sInterval) THEN NoMatch
             ELSE LET d == TrimLeft(Drop(a, Len(sInterval)))
                  IN  IF d # <<>> /\ \A i \in 1..Len(d) : IsDigit(d[i])
                      THEN [ok |-> TRUE, cap |-> d]
                      ELSE NoMatch

\* ^(\d)-(.+)\.sql$ : [ok, level digit, rest]
levelRegex(filename) ==
    IF /\ Len(filename) >= 7
       /\ IsDigit(filename[1])
       /\ filename[2] = "-"
       /\ HasSuffix(filename, sSql)
    THEN [ok |-> TRUE, digit |-> <<filename[1]>>,
          rest |-> SubSeq(filename, 3, Len(filename) - 4)]
    ELSE [ok |-> FALSE, digit |-> <<>>, rest |-> <<>>]

----------------------------------------------------------------------------
\* generateName and normalizePlatform.

generateName(filename, category, subcategory) ==
    LET name == Title(ReplaceAll(ReplaceAll(TrimSuffix(filename, sSql),
                                            <<"-">>, <<" ">>),
                                 <<"_">>, <<" ">>))
    IN  IF subcategory # <<>>
        THEN <<"[">> \o category \o <<"/">> \o subcategory \o <<"]", " ">> \o name
        ELSE <<"[">> \o category \o <<"]", " ">> \o name

normalizePlatform(platform) ==
    LET p == ToLower(platform)
    IN  IF p \in {sDarwin, sMacos} THEN sDarwin
        ELSE IF p = sLinux THEN sLinux
        ELSE IF p = sPosix THEN sDarwinLinux
        ELSE IF p = sWindows THEN sWindows
        ELSE <<>>

----------------------------------------------------------------------------
\* parseQuery.

\* var q Query, with the locals of the scanner loop beside it.
emptyQuery ==
    [Name |-> <<>>, Description |-> <<>>, Query |-> <<>>, Platform |-> <<>>,
     Tags |-> <<>>, Interval |-> 0, Level |-> 0, Category |-> <<>>,
     Subcategory |-> <<>>]

\* Lines 102-125: category, subcategory, level and name from the path, then
\* firstComment := true, inHeader := true.
parseQueryStart(relParts, category) ==
    LET subcategory == IF Len(relParts) > 1 THEN relParts[1] ELSE <<>>
        base        == relParts[Len(relParts)]
        m           == levelRegex(base)
        filename    == IF m.ok THEN m.rest \o sSql ELSE base
    IN  [q |-> [emptyQuery EXCEPT
                   !.Category = category,
                   !.Subcategory = subcategory,
                   !.Level = IF m.ok THEN ScanInt(m.digit, 0) ELSE 0,
                   !.Name = generateName(filename, category, subcategory)],
         sqlLines |-> <<>>,
         firstComment |-> TRUE,
         inHeader |-> TRUE]

\* Line 153: the comment becomes the description.
takesDescriptionNoRefs(firstComment, commentContent) ==
    /\ firstComment
    /\ commentContent # <<>>
    /\ ~HasPrefix(commentContent, sFalsePositives)

takesDescription(firstComment, commentContent) ==
    /\ firstComment
    /\ commentContent # <<>>
    /\ ~HasPrefix(commentContent, sReferences)
    /\ ~HasPrefix(commentContent, sFalsePositives)

\* Line 157: the line ends header mode.
endsHeaderOnBlank(line) == ~HasPrefix(line, sComment)

endsHeader(line) == TrimSpace(line) # <<>> /\ ~HasPrefix(line, sComment)

\* Line 162: the line is collected into sqlLines.
collectsUnconsumed(inHeader, line) == TRUE

collects(inHeader, line) == ~inHeader \/ ~HasPrefix(line, sComment)

\* Lines 161-164.
collect(p, line) ==
    IF collects(p.inHeader, line)
    THEN [p EXCEPT !.sqlLines = Append(@, line)]
    ELSE p

\* One iteration of the scanner loop, lines 128-164.  The three directive
\* branches `continue`, so they skip the collection at the end of the body.
scanLine(p, line) ==
    IF p.inHeader /\ HasPrefix(line, sComment)
    THEN LET commentContent == TrimSpace(TrimPrefix(line, sComment))
         IN  IF tagsRegex(line).ok
             THEN [p EXCEPT !.q.Tags = Fields(tagsRegex(line).cap)]
             ELSE IF platformRegex(line).ok
             THEN [p EXCEPT !.q.Platform =
                                normalizePlatform(TrimSpace(platformRegex(line).cap))]
             ELSE IF intervalRegex(line).ok
             THEN [p EXCEPT !.q.Interval = ScanInt(intervalRegex(line).cap, 0)]
             ELSE collect(IF takesDescription(p.firstComment, commentContent)
                          THEN [p EXCEPT !.q.Description = commentContent,
                                         !.firstComment = FALSE]
                          ELSE p,
                          line)
    ELSE collect(IF endsHeader(line) THEN [p EXCEPT !.inHeader = FALSE] ELSE p,
                 line)

\* Lines 167-170: trim leading empty lines.
RECURSIVE trimLeadingEmpty(_)
trimLeadingEmpty(ls) ==
    IF ls # <<>> /\ TrimSpace(ls[1]) = <<>> THEN trimLeadingEmpty(Tail(ls)) ELSE ls

\* Lines 167-178: the query text and the default description.
parseQueryEnd(p) ==
    LET q1 == [p.q EXCEPT !.Query = TrimSpace(Join(trimLeadingEmpty(p.sqlLines)))]
    IN  [p EXCEPT !.q = IF q1.Description = <<>>
                        THEN [q1 EXCEPT !.Description = q1.Name]
                        ELSE q1]

\* The scanner loop run over all the lines of a file.
RECURSIVE scanAll(_, _)
scanAll(p, ls) == IF ls = <<>> THEN p ELSE scanAll(scanLine(p, Head(ls)), Tail(ls))

\* The whole function on a directory entry e: os.Open fails, or the file is
\* scanned and the Query is returned with scanner.Err().
parseQuery(e, category) ==
    IF e.openErr
    THEN [q |-> emptyQuery, err |-> TRUE]
    ELSE [q |-> parseQueryEnd(scanAll(parseQueryStart(e.rel, category),
                                      e.content)).q,
          err |-> e.readErr]

----------------------------------------------------------------------------
\* escapeYAML and escapeYAMLMultiline.

yamlSpecial == {":", "#", "{", "}", "[", "]", "|", ">", "&", "*", "!", "?", "'",
                "\"", "\\"}

\* The two ReplaceAll calls in the opposite order.
escapeYAMLQuotesFirst(str) ==
    IF \/ ContainsAny(str, yamlSpecial)
       \/ HasPrefix(str, <<"-">>)
       \/ HasPrefix(str, <<"@">>)
    THEN <<"\"">>
         \o ReplaceAll(ReplaceAll(str, <<"\"">>, <<"\\", "\"">>),
                       <<"\\">>, <<"\\", "\\">>)
         \o <<"\"">>
    ELSE str

escapeYAML(str) ==
    IF \/ ContainsAny(str, yamlSpecial)
       \/ HasPrefix(str, <<"-">>)
       \/ HasPrefix(str, <<"@">>)
    THEN <<"\"">>
         \o ReplaceAll(ReplaceAll(str, <<"\\">>, <<"\\", "\\">>),
                       <<"\"">>, <<"\\", "\"">>)
         \o <<"\"">>
    ELSE str

escapeYAMLMultiline(str) == str

----------------------------------------------------------------------------
\* SpecParse: parseQuery's loop, one scanner.Scan() per step.

LineTags == <<"-", "-", " ", "t", "a", "g", "s", ":", " ", "a", " ", "b">>
LinePlatform == <<"-", "-", " ", "p", "l", "a", "t", "f", "o", "r", "m", ":", " ", "P", "o", "s", "i", "x">>
LineInterval == <<"-", "-", " ", "i", "n", "t", "e", "r", "v", "a", "l", ":", " ", "6", "0">>
LineIntervalText == <<"-", "-", " ", "i", "n", "t", "e", "r", "v", "a", "l", ":", " ", "6", "0", " ", "s">>
LineDesc == <<"-", "-", " ", "F", "i", "n", "d", " ", "i", "t">>
LineDesc2 == <<"-", "-", " ", "M", "o", "r", "e">>
LineRefs == <<"-", "-", " ", "r", "e", "f", "e", "r", "e", "n", "c", "e", "s", ":">>
LineFalsePos == <<"-", "-", "f", "a", "l", "s", "e", " ", "p", "o", "s", "i", "t", "i", "v", "e", "s", ":", " ", "x">>
LineEmptyComment == <<"-", "-", " ">>
LineEmpty == <<>>
LineSpaces == <<" ", "\t">>
LineSql == <<" ", "S", "E", "L", "E", "C", "T", " ", "1", ";", " ">>
LineIndented == <<" ", "-", "-", " ", "y">>

Lines == {LineTags, LinePlatform, LineInterval, LineIntervalText, LineDesc,
          LineDesc2, LineRefs, LineFalsePos, LineEmptyComment, LineEmpty,
          LineSpaces, LineSql, LineIndented}

\* detection/ex/2-a-b.sql and detection/c_d.sql, relative to the category.
PathInSub == << <<"e", "x">>, <<"2", "-", "a", "-", "b", ".", "s", "q", "l">> >>
PathAtTop == << <<"c", "_", "d", ".", "s", "q", "l">> >>

ParsePaths == {PathInSub, PathAtTop}

ParseIdle ==
    /\ fcat = <<>>
    /\ fpath = <<>>
    /\ scanned = <<>>
    /\ st = <<>>
    /\ ppc = "idle"

EscapeIdle == s = <<>> /\ out = <<>>

RunIdle ==
    /\ tree = <<>>
    /\ pc = "idle"
    /\ ci = 0
    /\ ei = 0
    /\ queries = <<>>
    /\ visited = {}
    /\ disk = <<>>
    /\ created = <<>>
    /\ wfailed = FALSE
    /\ faults = 0
    /\ exitCode = -1
    /\ run = 0
    /\ firstOut = <<>>

InitParse ==
    /\ fcat = sDetection
    /\ fpath \in ParsePaths
    /\ scanned = <<>>
    /\ st = parseQueryStart(fpath, fcat)
    /\ ppc = "scan"
    /\ EscapeIdle
    /\ RunIdle

\* scanner.Scan() returns the next line of the file.
Scan(line) ==
    /\ ppc = "scan"
    /\ Len(scanned) < MaxLines
    /\ scanned' = Append(scanned, line)
    /\ st' = scanLine(st, line)
    /\ UNCHANGED <<fcat, fpath, ppc, escVars, runVars>>

\* scanner.Scan() returns false: the end of the file.
Return ==
    /\ ppc = "scan"
    /\ st' = parseQueryEnd(st)
    /\ ppc' = "done"
    /\ UNCHANGED <<fcat, fpath, scanned, escVars, runVars>>

NextParse == (\E line \in Lines : Scan(line)) \/ Return

SpecParse == InitParse /\ [][NextParse]_vars

----------------------------------------------------------------------------
\* What the lines read so far are, stated on the file and not on the loop.

IsComment(line) == Len(line) >= 2 /\ line[1] = "-" /\ line[2] = "-"

IsBlank(line) == \A i \in 1..Len(line) : IsSpace(line[i])

\* Header mode when line i is read: every earlier line is a comment or blank.
HeaderOnAt(i) == \A j \in 1..(i - 1) : IsComment(scanned[j]) \/ IsBlank(scanned[j])

IsDirective(line) ==
    tagsRegex(line).ok \/ platformRegex(line).ok \/ intervalRegex(line).ok

Content(line) == TrimSpace(Drop(line, 2))

Qualifies(i) ==
    /\ HeaderOnAt(i)
    /\ IsComment(scanned[i])
    /\ ~IsDirective(scanned[i])
    /\ Content(scanned[i]) # <<>>
    /\ ~HasPrefix(Content(scanned[i]), sReferences)
    /\ ~HasPrefix(Content(scanned[i]), sFalsePositives)

\* The first qualifying line, 0 when there is none.
DescIndex ==
    IF \E i \in 1..Len(scanned) : Qualifies(i)
    THEN CHOOSE i \in 1..Len(scanned) :
            Qualifies(i) /\ \A j \in 1..(i - 1) : ~Qualifies(j)
    ELSE 0

\* The first line that is neither a comment nor blank, 0 when there is none.
BodyStart ==
    IF \E i \in 1..Len(scanned) : ~IsComment(scanned[i]) /\ ~IsBlank(scanned[i])
    THEN CHOOSE i \in 1..Len(scanned) :
            /\ ~IsComment(scanned[i]) /\ ~IsBlank(scanned[i])
            /\ HeaderOnAt(i)
    ELSE 0

\* The lines of scanned whose index keep marks, in file order.
RECURSIVE KeptFrom(_, _)
KeptFrom(keep, i) ==
    IF i > Len(scanned) THEN <<>>
    ELSE (IF keep[i] THEN <<scanned[i]>> ELSE <<>>) \o KeptFrom(keep, i + 1)

Kept(keep) == KeptFrom(keep, 1)

----------------------------------------------------------------------------
\* Claims about parseQuery (SpecParse).

\* C1, as stated: a line is left out of body (sqlLines) if and only if header
\* mode is still on when it is read and it is a comment line consumed as a
\* tags/platform/interval directive or as the description; every other line,
\* a header comment that is neither included, is appended in file order.
C1_AsStated ==
    ppc # "idle" =>
        st.sqlLines =
            Kept([i \in 1..Len(scanned) |->
                    ~(/\ HeaderOnAt(i)
                      /\ IsComment(scanned[i])
                      /\ (IsDirective(scanned[i]) \/ i = DescIndex))])

\* C1, amended: a line is left out of body (sqlLines) if and only if header
\* mode is still on when it is read and it starts with the comment marker,
\* consumed or not; every other line is appended in file order.
C1_HeaderCommentsDropped ==
    ppc # "idle" =>
        st.sqlLines =
            Kept([i \in 1..Len(scanned) |->
                    ~(HeaderOnAt(i) /\ IsComment(scanned[i]))])

\* A finished file with a header comment that is neither a directive nor the
\* description, a consumed directive, and a collected line.
C1_Witness ==
    /\ ppc = "done"
    /\ \E i \in 1..Len(scanned) :
          /\ HeaderOnAt(i) /\ IsComment(scanned[i])
          /\ ~IsDirective(scanned[i]) /\ i # DescIndex
    /\ \E i \in 1..Len(scanned) : HeaderOnAt(i) /\ IsDirective(scanned[i])
    /\ st.sqlLines # <<>>

\* C2: header mode starts on, is switched off by the first line that is
\* non-blank and no comment, and never comes back on; every line read after
\* that leaves tags, platform, interval and description (all of q) unchanged
\* and is appended verbatim, so the collected lines end with every line from
\* the first non-comment, non-blank line onward, and the returned query text
\* is the whitespace-trimmed join of exactly those lines.
C2_HeaderEndsOnce ==
    /\ [](ppc # "idle" => (st.inHeader <=> BodyStart = 0))
    /\ [](ppc # "idle" /\ BodyStart > 0 =>
            LET n == Len(scanned) - BodyStart + 1
                m == Len(st.sqlLines)
            IN  /\ m >= n
                /\ SubSeq(st.sqlLines, m - n + 1, m)
                     = SubSeq(scanned, BodyStart, Len(scanned))
                /\ \A i \in 1..(m - n) : IsBlank(st.sqlLines[i]))
    /\ [](ppc = "done" =>
            st.q.Query =
                IF BodyStart = 0 THEN <<>>
                ELSE TrimSpace(Join(SubSeq(scanned, BodyStart, Len(scanned)))))
    /\ [][ppc = "scan" /\ ~st.inHeader /\ scanned' # scanned =>
            /\ ~st'.inHeader
            /\ st'.q = st.q
            /\ st'.firstComment = st.firstComment
            /\ st'.sqlLines = Append(st.sqlLines, scanned'[Len(scanned')])]_vars

\* A directive-shaped line was read after header mode ended and is in body.
C2_Witness ==
    /\ ppc = "done"
    /\ BodyStart > 0
    /\ BodyStart < Len(scanned)
    /\ IsDirective(scanned[Len(scanned)])
    /\ st.sqlLines[Len(st.sqlLines)] = scanned[Len(scanned)]
    /\ st.q.Interval = 0 /\ st.q.Tags = <<>> /\ st.q.Platform = <<>>

\* C3: description is the content of the first header comment line that is
\* non-empty after the marker, no directive, and does not begin with
\* `references:` or `false positives:`; disqualified lines do not use up the
\* choice, later qualifying lines do not overwrite it, and with no such line
\* the description is the generated name.
C3_FirstQualifyingComment ==
    /\ ppc = "scan" =>
          st.q.Description =
              IF DescIndex = 0 THEN <<>> ELSE Content(scanned[DescIndex])
    /\ ppc = "done" =>
          st.q.Description =
              IF DescIndex = 0
              THEN generateName(IF levelRegex(fpath[Len(fpath)]).ok
                                THEN levelRegex(fpath[Len(fpath)]).rest \o sSql
                                ELSE fpath[Len(fpath)],
                                fcat,
                                IF Len(fpath) > 1 THEN fpath[1] ELSE <<>>)
              ELSE Content(scanned[DescIndex])

\* A `references:` line came first, the second comment was chosen, and a
\* third qualifying comment did not overwrite it.
C3_Witness ==
    /\ ppc = "done"
    /\ Len(scanned) >= 3
    /\ DescIndex = 2
    /\ HasPrefix(Content(scanned[1]), sReferences)
    /\ Qualifies(3)
    /\ st.q.Description = Content(scanned[2])
    /\ Content(scanned[3]) # Content(scanned[2])

----------------------------------------------------------------------------
\* SpecEscape: escapeYAML on every string over the alphabet, up to MaxStrLen.

Alphabet == yamlSpecial \cup {"-", "@", "a", " "}

InitEscape ==
    /\ s = <<>>
    /\ out = escapeYAML(<<>>)
    /\ ParseIdle
    /\ RunIdle

\* escapeYAML is called on the string one character longer.
Escape(c) ==
    /\ Len(s) < MaxStrLen
    /\ s' = Append(s, c)
    /\ out' = escapeYAML(s')
    /\ UNCHANGED <<parseVars, runVars>>

NextEscape == \E c \in Alphabet : Escape(c)

SpecEscape == InitEscape /\ [][NextEscape]_vars

\* The characters the claim lists.
QuotingChars == {":", "#", "{", "}", "[", "]", "|", ">", "&", "*", "!", "?", "'",
                 "\"", "\\"}

NeedsQuotes(str) ==
    \/ \E i \in 1..Len(str) : str[i] \in QuotingChars
    \/ (str # <<>> /\ str[1] \in {"-", "@"})

\* Character by character: a backslash becomes two, a double quote gets one
\* backslash before it, everything else stays.
RECURSIVE EscapedChars(_)
EscapedChars(str) ==
    IF str = <<>> THEN <<>>
    ELSE (CASE Head(str) = "\\" -> <<"\\", "\\">>
            [] Head(str) = "\"" -> <<"\\", "\"">>
            [] OTHER -> <<Head(str)>>) \o EscapedChars(Tail(str))

\* C9: escapeYAML(s) is s in double quotes, every backslash doubled and every
\* double quote preceded by one backslash (an added backslash is not doubled
\* again), if and only if s contains one of : # { } [ ] | > & * ! ? ' " \ or
\* starts with - or @; otherwise escapeYAML(s) is s unchanged.
C9_EscapeYAML ==
    out = IF NeedsQuotes(s)
          THEN <<"\"">> \o EscapedChars(s) \o <<"\"">>
          ELSE s

\* A string with a double quote and a backslash was quoted and escaped.
C9_Witness ==
    /\ \E i \in 1..Len(s) : s[i] = "\""
    /\ \E i \in 1..Len(s) : s[i] = "\\"
    /\ Len(out) = Len(s) + 4

----------------------------------------------------------------------------
\* The upstream tree of a run.  WalkDir hands the callback the entries of a
\* category directory in lexical order; an entry is a directory or a file.

NameCD == <<"c", "_", "d", ".", "s", "q", "l">>
NameEx == <<"e", "x">>
NameAB == <<"2", "-", "a", "-", "b", ".", "s", "q", "l">>
NameTxt == <<"n", ".", "t", "x", "t">>
NameOpen == <<"o", ".", "s", "q", "l">>
NameRead == <<"r", ".", "s", "q", "l">>
NameW == <<"w">>

Entry(rel, isDir, walkErr, openErr, readErr, content) ==
    [rel |-> rel, isDir |-> isDir, walkErr |-> walkErr, openErr |-> openErr,
     readErr |-> readErr, content |-> content]

\* In lexical order of their paths: c_d.sql, ex/, ex/2-a-b.sql, n.txt,
\* o.sql (cannot be opened), r.sql (read error), w/ (cannot be listed).
\* The category directory itself, which WalkDir visits first and the
\* callback skips as a directory, is not listed.
Catalogue ==
    << Entry(<<NameCD>>, FALSE, FALSE, FALSE, FALSE, <<LineTags, LineSql>>),
       Entry(<<NameEx>>, TRUE, FALSE, FALSE, FALSE, <<>>),
       Entry(<<NameEx, NameAB>>, FALSE, FALSE, FALSE, FALSE,
             <<LineDesc, LineInterval, LineEmpty, LineSql, LineDesc2>>),
       Entry(<<NameTxt>>, FALSE, FALSE, FALSE, FALSE, <<LineSql>>),
       Entry(<<NameOpen>>, FALSE, FALSE, TRUE, FALSE, <<>>),
       Entry(<<NameRead>>, FALSE, FALSE, FALSE, TRUE, <<LineDesc>>),
       Entry(<<NameW>>, TRUE, TRUE, FALSE, FALSE, <<>>) >>

\* The entries of Catalogue picked by the index set S, in order.
RECURSIVE Pick(_, _)
Pick(S, i) ==
    IF i > Len(Catalogue) THEN <<>>
    ELSE (IF i \in S THEN <<Catalogue[i]>> ELSE <<>>) \o Pick(S, i + 1)

\* A file below ex/ is only there with ex/ itself.
WellFormed(S) == 3 \in S => 2 \in S

Picks(idx, n) == {S \in SUBSET idx : Cardinality(S) <= n /\ WellFormed(S)}

\* A category directory with no entries is there or missing.
Dirs(S) ==
    IF S = {}
    THEN {[exists |-> TRUE, entries |-> <<>>], [exists |-> FALSE, entries |-> <<>>]}
    ELSE {[exists |-> TRUE, entries |-> Pick(S, 1)]}

DirsUpTo(idx, n) == UNION {Dirs(S) : S \in Picks(idx, n)}

\* detection/, policy/ and incident_response/ with entries of the catalogue
\* indices idx, MaxEntries entries in all.
Trees(idx) ==
    UNION {UNION {{<<a, b, c>> :
                      c \in DirsUpTo(idx, MaxEntries - Len(a.entries) - Len(b.entries))} :
                  b \in DirsUpTo(idx, MaxEntries - Len(a.entries))} :
           a \in DirsUpTo(idx, MaxEntries)}

\* Every kind of entry: the trees parseAllQueries is walked over in SpecWalk.
WalkTrees == Trees(1..Len(Catalogue))

\* c_d.sql, ex/, ex/2-a-b.sql and the unreadable o.sql: the trees of the
\* whole runs of Spec.
RunTrees == Trees({1, 2, 3, 5})

----------------------------------------------------------------------------
\* parseAllQueries.

Last(sq) == sq[Len(sq)]

\* A parse failure ends the walk like a traversal error.
walkFnStrict(qs, e, category) ==
    IF e.walkErr THEN [queries |-> qs, err |-> TRUE]
    ELSE IF e.isDir \/ ~HasSuffix(Last(e.rel), sSql)
    THEN [queries |-> qs, err |-> FALSE]
    ELSE IF parseQuery(e, category).err
    THEN [queries |-> qs, err |-> TRUE]
    ELSE [queries |-> Append(qs, parseQuery(e, category).q), err |-> FALSE]

\* The WalkDir callback, lines 70-86, on entry e: the queries slice after the
\* call and whether the callback returned an error.
walkFn(qs, e, category) ==
    IF e.walkErr THEN [queries |-> qs, err |-> TRUE]
    ELSE IF e.isDir \/ ~HasSuffix(Last(e.rel), sSql)
    THEN [queries |-> qs, err |-> FALSE]
    ELSE IF parseQuery(e, category).err
    THEN [queries |-> qs, err |-> FALSE]
    ELSE [queries |-> Append(qs, parseQuery(e, category).q), err |-> FALSE]

----------------------------------------------------------------------------
\* Output files.  A file's content is the sequence of strings written to it;
\* a written string is its literal part k and its formatted argument v.

sChainguard == <<"c", "h", "a", "i", "n", "g", "u", "a", "r", "d", "-">>
sYml == <<".", "y", "m", "l">>
sDetection5min == <<"c", "h", "a", "i", "n", "g", "u", "a", "r", "d", "-", "d", "e", "t", "e", "c", "t", "i", "o", "n", "-", "5", "m", "i", "n", ".", "y", "m", "l">>
sAll == <<"c", "h", "a", "i", "n", "g", "u", "a", "r", "d", "-", "a", "l", "l", ".", "y", "m", "l">>

Str(k, v) == [k |-> k, v |-> v]

\* fmt.Sprintf("%d", n) for n >= 0
RECURSIVE FormatInt(_)
FormatInt(n) ==
    LET d == <<"0", "1", "2", "3", "4", "5", "6", "7", "8", "9">>[(n % 10) + 1]
    IN  IF n < 10 THEN <<d>> ELSE Append(FormatInt(n \div 10), d)

\* Line 231: fmt.Sprintf("chainguard-%s.yml", strings.ReplaceAll(category, "_", "-"))
groupFileName(category) ==
    sChainguard \o ReplaceAll(category, <<"_">>, <<"-">>) \o sYml

EmptyDir == [n \in {} |-> <<>>]

\* What os.Create gives: an error, a handle every WriteString to which
\* returns an error (a full device), or a handle that works.
CreateResults == {"error", "failing", "ok"}

\* os.Create on the directory d: the file exists and is empty.
osCreate(d, name) ==
    [n \in DOMAIN d \cup {name} |-> IF n = name THEN <<>> ELSE d[n]]

\* file.WriteString(str) on the handle w; the code discards what it returns.
WriteString(w, str) ==
    IF w.failing
    THEN [w EXCEPT !.failed = TRUE]
    ELSE [w EXCEPT !.data = Append(@, str)]

RECURSIVE WriteStrings(_, _)
WriteStrings(w, strs) ==
    IF strs = <<>> THEN w ELSE WriteStrings(WriteString(w, Head(strs)), Tail(strs))

\* The record's own interval wins over the override.
resolveIntervalOwnFirst(q, intervalOverride) ==
    IF q.Interval > 0 THEN q.Interval ELSE intervalOverride

\* Lines 314-317.
resolveInterval(q, intervalOverride) ==
    IF intervalOverride > 0 THEN intervalOverride ELSE q.Interval

\* writeQueryYAML, lines 292-330: the handle after the writes, and the error
\* it returns, which is always nil.
writeQueryYAML(w, q, intervalOverride) ==
    LET desc     == escapeYAML(q.Description)
        query    == escapeYAMLMultiline(q.Query)
        qlines   == Split(query)
        interval == resolveInterval(q, intervalOverride)
        strs ==
            << Str("apiVersion: v1", <<>>),
               Str("kind: query", <<>>),
               Str("spec:", <<>>),
               Str("  name: ", escapeYAML(q.Name)),
               Str("  description: ", desc),
               Str("  query: |", <<>>) >>
            \o [i \in 1..Len(qlines) |-> Str("    ", qlines[i])]
            \o (IF q.Platform # <<>> THEN <<Str("  platform: ", q.Platform)>> ELSE <<>>)
            \o (IF interval > 0 THEN <<Str("  interval: ", FormatInt(interval))>> ELSE <<>>)
            \o (IF q.Category = sDetection \/ q.Category = sPolicy
                THEN <<Str("  logging: differential", <<>>)>>
                ELSE <<Str("  logging: snapshot", <<>>)>>)
    IN  [w |-> WriteStrings(w, strs), err |-> FALSE]

\* A boundary line goes before every record, the first too.
needsBoundaryAlways(i) == TRUE

\* Lines 238, 259, 280: `if i > 0`, i the index from 0.
needsBoundary(i) == i > 0

\* The loop over the records of one document, lines 237-245 (and 258-266,
\* 279-286): [w, err], err when writeQueryYAML returned an error.
RECURSIVE writeRecords(_, _, _, _)
writeRecords(w, qs, i, intervalOverride) ==
    IF i >= Len(qs) THEN [w |-> w, err |-> FALSE]
    ELSE LET w1 == IF needsBoundary(i) THEN WriteString(w, Str("---", <<>>)) ELSE w
             r  == writeQueryYAML(w1, qs[i + 1], intervalOverride)
         IN  IF r.err THEN r
             ELSE writeRecords(r.w, qs, i + 1, intervalOverride)

\* One document: os.Create, the loop, file.Close().  res is what os.Create
\* gives; the writes start at offset 0 of the file os.Create left.  [disk, err, wfailed]: the directory afterwards, whether an error
\* is returned to main, and whether a WriteString failed.
writeDocument(d, name, qs, intervalOverride, res) ==
    IF res = "error" THEN [disk |-> d, err |-> TRUE, wfailed |-> FALSE]
    ELSE LET d1 == osCreate(d, name)
             r  == writeRecords([data |-> <<>>, failing |-> (res = "failing"),
                                 failed |-> FALSE],
                                qs, 0, intervalOverride)
         IN  [disk |-> [d1 EXCEPT ![name] =
                           r.w.data \o SubSeq(@, Len(r.w.data) + 1, Len(@))],
              err |-> r.err,
              wfailed |-> r.w.failed]

\* Lines 216-224: groups[category].
RECURSIVE groupOf(_, _)
groupOf(qs, category) ==
    IF qs = <<>> THEN <<>>
    ELSE (IF Head(qs).Category = category THEN <<Head(qs)>> ELSE <<>>)
         \o groupOf(Tail(qs), category)

\* Every group gets a file, an empty one too.
skipsGroupNever(categoryQueries) == FALSE

\* Line 227: `if len(categoryQueries) == 0 { continue }`
skipsGroup(categoryQueries) == Len(categoryQueries) = 0

\* Line 262: the override of the scheduled detection document.
scheduledInterval == 300

----------------------------------------------------------------------------------------------------------------------------------------
\* Spec: a run of main on a tree, and a second run on the same tree.
\* SpecWalk: parseAllQueries alone, on trees with every kind of entry.

RunStart ==
    /\ pc = "walk"
    /\ ci = 1
    /\ ei = 1
    /\ queries = <<>>
    /\ visited = {}
    /\ disk = EmptyDir
    /\ created = <<>>
    /\ wfailed = FALSE
    /\ faults = 0
    /\ exitCode = -1
    /\ run = 1
    /\ firstOut = [disk |-> EmptyDir, wfailed |-> FALSE, created |-> <<>>]
    /\ ParseIdle
    /\ EscapeIdle

Init == tree \in RunTrees /\ RunStart

InitWalk == tree \in WalkTrees /\ RunStart

\* Lines 65-68: os.Stat says the category directory does not exist.
SkipMissing ==
    /\ pc = "walk"
    /\ ci <= Len(categories)
    /\ ~tree[ci].exists
    /\ ci' = ci + 1
    /\ ei' = 1
    /\ UNCHANGED <<tree, pc, queries, visited, disk, created, wfailed, faults,
                   exitCode, run, firstOut, parseVars, escVars>>

\* Lines 70-89: WalkDir calls the callback on the next entry; an error it
\* returns ends parseAllQueries with (nil, err) and main with exit code 1.
Visit ==
    /\ pc = "walk"
    /\ ci <= Len(categories)
    /\ tree[ci].exists
    /\ ei <= Len(tree[ci].entries)
    /\ LET r == walkFn(queries, tree[ci].entries[ei], categories[ci])
       IN  IF r.err
           THEN /\ queries' = <<>>
                /\ pc' = "fail_parse"
                /\ exitCode' = 1
                /\ ei' = ei
           ELSE /\ queries' = r.queries
                /\ ei' = ei + 1
                /\ UNCHANGED <<pc, exitCode>>
    /\ UNCHANGED <<tree, ci, visited, disk, created, wfailed, faults, run,
                   firstOut, parseVars, escVars>>

\* WalkDir returns nil: the next category.
WalkEnd ==
    /\ pc = "walk"
    /\ ci <= Len(categories)
    /\ tree[ci].exists
    /\ ei > Len(tree[ci].entries)
    /\ ci' = ci + 1
    /\ ei' = 1
    /\ UNCHANGED <<tree, pc, queries, visited, disk, created, wfailed, faults,
                   exitCode, run, firstOut, parseVars, escVars>>

\* Line 92: return queries, nil.
Parsed ==
    /\ pc = "walk"
    /\ ci > Len(categories)
    /\ pc' = "mkdir"
    /\ UNCHANGED <<tree, ci, ei, queries, visited, disk, created, wfailed,
                   faults, exitCode, run, firstOut, parseVars, escVars>>

NextWalk == SkipMissing \/ Visit \/ WalkEnd \/ Parsed

SpecWalk == InitWalk /\ [][NextWalk]_vars

\* Lines 46-49: os.MkdirAll.
MkdirAll(ok) ==
    /\ pc = "mkdir"
    /\ IF ok
       THEN pc' = "groups" /\ UNCHANGED exitCode
       ELSE pc' = "fail_mkdir" /\ exitCode' = 1
    /\ UNCHANGED <<tree, ci, ei, queries, visited, disk, created, wfailed,
                   faults, run, firstOut, parseVars, escVars>>

\* os.Create goes wrong: an error, or a handle that will fail.
Faulty(res) == res # "ok"

\* The outcomes of the next os.Create.
Outcomes == {res \in CreateResults : Faulty(res) => faults < MaxFaults}

\* Lines 226-248: one iteration of `for category, categoryQueries := range
\* groups`; the map yields the categories in any order.
WriteGroup(category, res) ==
    /\ pc = "groups"
    /\ category \notin visited
    /\ LET categoryQueries == groupOf(queries, category)
           r == writeDocument(disk, groupFileName(category), categoryQueries, 0, res)
       IN  IF skipsGroup(categoryQueries)
           THEN /\ visited' = visited \cup {category}
                /\ UNCHANGED <<pc, disk, created, wfailed, faults, exitCode>>
           ELSE /\ created' = Append(created, groupFileName(category))
                /\ disk' = r.disk
                /\ wfailed' = (wfailed \/ r.wfailed)
                /\ faults' = IF Faulty(res) THEN faults + 1 ELSE faults
                /\ IF r.err
                   THEN pc' = "fail_write" /\ exitCode' = 1 /\ UNCHANGED visited
                   ELSE visited' = visited \cup {category} /\ UNCHANGED <<pc, exitCode>>
    /\ UNCHANGED <<tree, ci, ei, queries, run, firstOut, parseVars, escVars>>

\* Lines 250-269: the detection records again, every interval 300.
WriteScheduled(res) ==
    /\ pc = "groups"
    /\ visited = Categories
    /\ LET detectionQueries == groupOf(queries, sDetection)
           r == writeDocument(disk, sDetection5min, detectionQueries,
                              scheduledInterval, res)
       IN  IF Len(detectionQueries) > 0
           THEN /\ created' = Append(created, sDetection5min)
                /\ disk' = r.disk
                /\ wfailed' = (wfailed \/ r.wfailed)
                /\ faults' = IF Faulty(res) THEN faults + 1 ELSE faults
                /\ IF r.err
                   THEN pc' = "fail_write" /\ exitCode' = 1
                   ELSE pc' = "all" /\ UNCHANGED exitCode
           ELSE /\ pc' = "all"
                /\ UNCHANGED <<disk, created, wfailed, faults, exitCode>>
    /\ UNCHANGED <<tree, ci, ei, queries, visited, run, firstOut, parseVars, escVars>>

\* The combined document ranges over the groups, in the order the map
\* yielded them.
RECURSIVE groupsInOrder(_)
groupsInOrder(names) ==
    IF names = <<>> THEN <<>>
    ELSE (IF \E c \in Categories : groupFileName(c) = Head(names)
          THEN groupOf(queries, CHOOSE c \in Categories : groupFileName(c) = Head(names))
          ELSE <<>>)
         \o groupsInOrder(Tail(names))

combinedRecordsByGroup == groupsInOrder(created)

\* Line 279: `for i, q := range queries`, the slice parseAllQueries returned.
combinedRecords == queries

\* Lines 271-289 and 56: the combined document, then main returns.
WriteCombined(res) ==
    /\ pc = "all"
    /\ LET r == writeDocument(disk, sAll, combinedRecords, 0, res)
       IN  /\ created' = Append(created, sAll)
           /\ disk' = r.disk
           /\ wfailed' = (wfailed \/ r.wfailed)
           /\ faults' = IF Faulty(res) THEN faults + 1 ELSE faults
           /\ IF r.err
              THEN pc' = "fail_write" /\ exitCode' = 1
              ELSE pc' = "done" /\ exitCode' = 0
    /\ UNCHANGED <<tree, ci, ei, queries, visited, run, firstOut, parseVars, escVars>>

\* The converter is run again on the unchanged tree, into the same output
\* directory (the Makefile's `convert` target), after a first run that
\* succeeded with every write.
Rerun ==
    /\ pc = "done"
    /\ ~wfailed
    /\ run = 1
    /\ run' = 2
    /\ firstOut' = [disk |-> disk, wfailed |-> wfailed, created |-> created]
    /\ pc' = "walk"
    /\ ci' = 1
    /\ ei' = 1
    /\ queries' = <<>>
    /\ visited' = {}
    /\ created' = <<>>
    /\ wfailed' = FALSE
    /\ exitCode' = -1
    /\ UNCHANGED <<tree, disk, faults, parseVars, escVars>>

Next ==
    \/ SkipMissing
    \/ Visit
    \/ WalkEnd
    \/ Parsed
    \/ \E ok \in BOOLEAN : MkdirAll(ok)
    \/ \E category \in Categories, res \in Outcomes : WriteGroup(category, res)
    \/ \E res \in Outcomes : WriteScheduled(res)
    \/ \E res \in Outcomes : WriteCombined(res)
    \/ Rerun

Spec == Init /\ [][Next]_vars

----------------------------------------------------------------------------
\* Reading the output back.

FileDetection == <<"c", "h", "a", "i", "n", "g", "u", "a", "r", "d", "-", "d", "e", "t", "e", "c", "t", "i", "o", "n", ".", "y", "m", "l">>
FilePolicy == <<"c", "h", "a", "i", "n", "g", "u", "a", "r", "d", "-", "p", "o", "l", "i", "c", "y", ".", "y", "m", "l">>
FileIncidentResponse == <<"c", "h", "a", "i", "n", "g", "u", "a", "r", "d", "-", "i", "n", "c", "i", "d", "e", "n", "t", "-", "r", "e", "s", "p", "o", "n", "s", "e", ".", "y", "m", "l">>
FileDetection5min == <<"c", "h", "a", "i", "n", "g", "u", "a", "r", "d", "-", "d", "e", "t", "e", "c", "t", "i", "o", "n", "-", "5", "m", "i", "n", ".", "y", "m", "l">>
FileAll == <<"c", "h", "a", "i", "n", "g", "u", "a", "r", "d", "-", "a", "l", "l", ".", "y", "m", "l">>

\* The file of a category: underscores replaced by hyphens.
FileOf(category) ==
    CASE category = sDetection -> FileDetection
      [] category = sPolicy -> FilePolicy
      [] category = sIncidentResponse -> FileIncidentResponse

IsBoundary(str) == str.k = "---"

\* The documents of a file: the runs of strings between boundary lines.
RECURSIVE DocsFrom(_, _)
DocsFrom(content, cur) ==
    IF content = <<>> THEN <<cur>>
    ELSE IF IsBoundary(Head(content)) THEN <<cur>> \o DocsFrom(Tail(content), <<>>)
    ELSE DocsFrom(Tail(content), Append(cur, Head(content)))

Docs(content) == IF content = <<>> THEN <<>> ELSE DocsFrom(content, <<>>)

\* The arguments of the strings of doc whose literal part is key, in order.
RECURSIVE Values(_, _)
Values(doc, key) ==
    IF doc = <<>> THEN <<>>
    ELSE (IF Head(doc).k = key THEN <<Head(doc).v>> ELSE <<>>) \o Values(Tail(doc), key)

\* A YAML scalar as the escaping rule gives it.
Scalar(str) ==
    IF NeedsQuotes(str) THEN <<"\"">> \o EscapedChars(str) \o <<"\"">> ELSE str

\* doc is the record q, with an interval line for n > 0 and none for n = 0.
Shows(doc, q, n) ==
    /\ Values(doc, "  name: ") = <<Scalar(q.Name)>>
    /\ Values(doc, "  description: ") = <<Scalar(q.Description)>>
    /\ Join(Values(doc, "    ")) = q.Query
    /\ LET iv == Values(doc, "  interval: ")
       IN  IF n > 0 THEN Len(iv) = 1 /\ ScanInt(iv[1], 0) = n ELSE iv = <<>>

\* content holds exactly the records qs, in order, each with its own interval.
HoldsOwn(content, qs) ==
    /\ Len(Docs(content)) = Len(qs)
    /\ \A i \in 1..Len(qs) : Shows(Docs(content)[i], qs[i], qs[i].Interval)

\* content holds exactly the records qs, in order, each with interval n.
HoldsForced(content, qs, n) ==
    /\ Len(Docs(content)) = Len(qs)
    /\ \A i \in 1..Len(qs) : Shows(Docs(content)[i], qs[i], n)

NoIntervals(content) == SelectSeq(content, LAMBDA str : str.k # "  interval: ")

\* The records of a category, in the order of queries.
Of(category) == SelectSeq(queries, LAMBDA q : q.Category = category)

CreatedNames == {created[i] : i \in 1..Len(created)}

Times(name) == Cardinality({i \in 1..Len(created) : created[i] = name})

Writing == pc \in {"groups", "all", "done", "fail_write"}

----------------------------------------------------------------------------
\* Claims about writeFleetYAML and main (Spec).

\* C4: for each category, the run creates chainguard-<category, _ as ->.yml
\* if and only if the category has a record (a run that got past the loop
\* over the groups created it exactly once; no run creates the file of a
\* category without records); when its writes succeeded the file holds
\* exactly the records of the category, each once, in the order of the input
\* sequence, each with its own interval (an interval line only for > 0).
C4_CategoryFiles ==
    Writing =>
        \A c \in Categories :
            /\ Of(c) = <<>> => FileOf(c) \notin CreatedNames
            /\ run = 1 /\ Of(c) = <<>> => FileOf(c) \notin DOMAIN disk
            /\ Times(FileOf(c)) <= 1
            /\ pc \in {"all", "done"} /\ Of(c) # <<>> => FileOf(c) \in CreatedNames
            /\ c \in visited /\ Of(c) # <<>> /\ ~wfailed =>
                  /\ FileOf(c) \in DOMAIN disk
                  /\ HoldsOwn(disk[FileOf(c)], Of(c))

\* A finished run with a category of two records, one with an interval and
\* one without, and a category with no record and no file.
C4_Witness ==
    /\ pc = "done"
    /\ ~wfailed
    /\ \E c \in Categories :
          /\ Len(Of(c)) = 2
          /\ Of(c)[1].Interval = 0
          /\ Of(c)[2].Interval > 0
          /\ Len(Docs(disk[FileOf(c)])) = 2
    /\ \E c \in Categories : Of(c) = <<>> /\ FileOf(c) \notin DOMAIN disk

\* C5: chainguard-detection-5min.yml is created if and only if detection
\* has a record; when its writes succeeded it holds the records of
\* chainguard-detection.yml in the same order, the two files differing in
\* nothing but the interval lines, every record with `interval: 300`
\* whatever its own interval, while chainguard-detection.yml and
\* chainguard-all.yml carry each record's own interval.
C5_ScheduledDetection ==
    Writing =>
        /\ Of(sDetection) = <<>> => FileDetection5min \notin CreatedNames
        /\ Times(FileDetection5min) <= 1
        /\ pc \in {"all", "done"} /\ Of(sDetection) # <<>> =>
              /\ FileDetection5min \in CreatedNames
              /\ ~wfailed =>
                    /\ HoldsForced(disk[FileDetection5min], Of(sDetection), 300)
                    /\ HoldsOwn(disk[FileDetection], Of(sDetection))
                    /\ NoIntervals(disk[FileDetection5min])
                         = NoIntervals(disk[FileDetection])
        /\ pc = "done" /\ ~wfailed => HoldsOwn(disk[FileAll], queries)

\* A finished run whose detection records have the intervals 0 and 60.
C5_Witness ==
    /\ pc = "done"
    /\ ~wfailed
    /\ Len(Of(sDetection)) = 2
    /\ Of(sDetection)[1].Interval = 0
    /\ Of(sDetection)[2].Interval = 60
    /\ Len(Docs(disk[FileDetection5min])) = 2

\* C6, as stated: a failed os.Create or a failed write ends the run with the
\* fatal outcome, exit code 1, and the success outcome, exit code 0, is
\* never reached in a run in which a creation or a write failed.
C6_AsStated ==
    /\ pc = "fail_write" => exitCode = 1
    /\ exitCode = 0 => ~wfailed

\* C8: two successful runs on the same tree, neither with a failed write,
\* leave the same files with the same content, whatever the order in which
\* each of them went through the groups.
C8_SameOutputTwice ==
    run = 2 /\ pc = "done" /\ ~wfailed /\ ~firstOut.wfailed => disk = firstOut.disk

\* The second run finished after going through the three groups, all with
\* records, in another order than the first.
C8_Witness ==
    /\ run = 2
    /\ pc = "done"
    /\ ~wfailed
    /\ ~firstOut.wfailed
    /\ Len(created) = 5
    /\ created # firstOut.created
    /\ disk = firstOut.disk

\* The contents joined with one boundary line between non-empty ones.
RECURSIVE JoinParts(_)
JoinParts(parts) ==
    IF parts = <<>> THEN <<>>
    ELSE IF Head(parts) = <<>> THEN JoinParts(Tail(parts))
    ELSE IF JoinParts(Tail(parts)) = <<>> THEN Head(parts)
    ELSE Head(parts) \o <<Str("---", <<>>)>> \o JoinParts(Tail(parts))

Part(category) == IF Of(category) = <<>> THEN <<>> ELSE disk[FileOf(category)]

\* C10: after every successful run chainguard-all.yml has been created, with
\* zero records too, and (its writes having succeeded) its content is the
\* contents of the category files of the run in the order detection, policy,
\* incident_response with one boundary line between consecutive ones: the
\* detection records, then the policy records, then the incident_response
\* records, a boundary line before every record but the first and none at
\* the start or the end.
C10_CombinedDocument ==
    pc = "done" =>
        /\ Times(FileAll) = 1
        /\ FileAll \in DOMAIN disk
        /\ ~wfailed =>
              LET all == disk[FileAll]
              IN  /\ all = JoinParts(<<Part(sDetection), Part(sPolicy),
                                       Part(sIncidentResponse)>>)
                  /\ HoldsOwn(all, Of(sDetection) \o Of(sPolicy)
                                     \o Of(sIncidentResponse))
                  /\ Cardinality({i \in 1..Len(all) : IsBoundary(all[i])})
                       = (IF queries = <<>> THEN 0 ELSE Len(queries) - 1)
                  /\ all # <<>> => ~IsBoundary(all[1]) /\ ~IsBoundary(all[Len(all)])

\* A successful run with a record in each of the three categories.
C10_Witness ==
    /\ pc = "done"
    /\ ~wfailed
    /\ \A c \in Categories : Of(c) # <<>>
    /\ Len(Docs(disk[FileAll])) = 3

----------------------------------------------------------------------------
\* Claims about parseAllQueries (SpecWalk).

IsSqlFile(e) == ~e.isDir /\ HasSuffix(Last(e.rel), sSql)

\* F: the .sql files that cannot be opened or read.
Fails(e) == IsSqlFile(e) /\ (e.openErr \/ e.readErr)

\* The tree without the files of F.
Without(tr) ==
    [i \in 1..Len(tr) |->
        [exists |-> tr[i].exists,
         entries |-> SelectSeq(tr[i].entries, LAMBDA e : ~Fails(e))]]

\* The records of the .sql files of a directory without failing files.
RECURSIVE RecordsIn(_, _)
RecordsIn(entries, category) ==
    IF entries = <<>> THEN <<>>
    ELSE (IF IsSqlFile(Head(entries))
          THEN <<parseQueryEnd(scanAll(parseQueryStart(Head(entries).rel, category),
                                       Head(entries).content)).q>>
          ELSE <<>>)
         \o RecordsIn(Tail(entries), category)

RecordsOf(tr) ==
    RecordsIn(tr[1].entries, categories[1])
    \o RecordsIn(tr[2].entries, categories[2])
    \o RecordsIn(tr[3].entries, categories[3])

HasWalkErr(tr) ==
    \E i \in 1..Len(tr) : \E j \in 1..Len(tr[i].entries) : tr[i].entries[j].walkErr

\* C7: with any set F of .sql files that fail to open or read,
\* parseAllQueries returns no error and the run goes on to the output stage
\* with exactly the records the tree without F gives, in traversal order;
\* only a traversal error makes it fail, and then it returns no records.
C7_ParseFailuresSkipped ==
    /\ pc = "mkdir" => queries = RecordsOf(Without(tree))
    /\ pc = "fail_parse" =>
          /\ queries = <<>>
          /\ exitCode = 1
          /\ tree[ci].entries[ei].walkErr
    /\ ~HasWalkErr(tree) => pc # "fail_parse"

\* parseAllQueries returned a record of a later category after a file that
\* could not be opened and one that could not be read.
C7_Witness ==
    /\ pc = "mkdir"
    /\ \E j \in 1..Len(tree[1].entries) : tree[1].entries[j].openErr
    /\ \E j \in 1..Len(tree[1].entries) : tree[1].entries[j].readErr
    /\ Len(queries) = 1
    /\ queries[1].Category # sDetection

====
